---- MODULE Spec2Model ----
(* boost::locking_queue<T, std::queue<T>> (src/src/boost/locking_queue.hpp) *)
(* as a state machine: a container, a boost::mutex, a condition variable   *)
(* and a set of threads each executing empty / size / push / pop calls.    *)
EXTENDS Integers, Sequences, FiniteSets, TLC

(* ---------------------------------------------------------------- bounds *)
NumThreads == 2
NumValues == 2
MaxSeed == 2
MaxTimeout == 1
MaxCalls == 2

Threads == 1..NumThreads
Values == 1..NumValues
Timeouts == (-1)..MaxTimeout

(* What front() yields on an empty std::queue: an indeterminate value.     *)
Garbage == 0
(* The queue_empty exception and "no result yet".                          *)
QueueEmpty == "queue_empty"
NoResult == "none"

VARIABLES
  container,   \* locking_queue::container (front of the queue = Head)
  holders,     \* threads that own locking_queue::mutex
  pc,          \* position of each thread inside its current call
  block,       \* pop's block argument of each thread's current call
  timeout,     \* pop's timeout argument of each thread's current call
  arg,         \* push's element argument of each thread's current call
  result,      \* what each thread's last call returned or threw
  remaining,   \* time left of the current timed_wait of each thread
  waited,      \* time the thread's current call spent in timed_wait (capped)
  snap,        \* the container as it was when the thread last took the mutex
  seed,        \* the contents the queue was constructed with
  other,       \* the container the queue was constructed from, as it is now
  pushed,      \* values appended by push, in the order the pushes ran
  popped,      \* values returned by pop, in the order the pops ran
  ncalls       \* number of calls started so far

vars == <<container, holders, pc, block, timeout, arg, result, remaining,
          waited, snap, seed, other, pushed, popped, ncalls>>

(* The containers a queue is constructed from: the empty one (line 68)    *)
(* and the first k values of 1, 2, ..., 1, 2, ... for k up to MaxSeed      *)
(* (line 77).                                                              *)
SeedOf(k) == [i \in 1..k |-> ((i - 1) % NumValues) + 1]
Seeds == {SeedOf(k) : k \in 0..MaxSeed}

(* Constructors, lines 68 and 77-78: empty, or a copy of another container. *)
Init ==
  /\ seed \in Seeds
  /\ other = seed
  /\ container = other
  /\ holders = {}
  /\ pc = [t \in Threads |-> "idle"]
  /\ block = [t \in Threads |-> FALSE]
  /\ timeout = [t \in Threads |-> 0]
  /\ arg = [t \in Threads |-> Garbage]
  /\ result = [t \in Threads |-> [kind |-> NoResult, value |-> Garbage]]
  /\ remaining = [t \in Threads |-> 0]
  /\ waited = [t \in Threads |-> 0]
  /\ snap = [t \in Threads |-> <<>>]
  /\ pushed = <<>>
  /\ popped = <<>>
  /\ ncalls = 0

(* ------------------------------------------------------------ primitives *)
(* boost::mutex::lock succeeds only when no thread owns the mutex.         *)
CanLockFree(t) == TRUE
CanLock(t) == holders = {}

(* Results of a call.                                                      *)
Returned(v) == [kind |-> "value", value |-> v]
Thrown == [kind |-> QueueEmpty, value |-> Garbage]
Void == [kind |-> "void", value |-> Garbage]
Bool(b) == [kind |-> "bool", value |-> IF b THEN 1 ELSE 0]

(* The branch on pop's block argument, line 115: timeout plays no part.    *)
TakesBlockingBranchOnTimeout(b, to) == b \/ to > 0
TakesBlockingBranch(b, to) == b

(* The loop condition of pop's blocking branch, line 116: the call waits   *)
(* while the container is NOT empty. WaitCondFixed is the condition the    *)
(* documentation of pop describes (wait while it is empty).                *)
WaitCondFixed(c) == c = <<>>
WaitCond(c) == ~(c = <<>>)

(* container.front() followed by container.pop(), lines 132-133. On an     *)
(* empty std::queue both are undefined: the call may crash, or return an   *)
(* indeterminate value and leave the container empty or corrupt.           *)
FrontPop(c) ==
  IF c # <<>>
    THEN {[elem |-> Head(c), cont |-> Tail(c), crash |-> FALSE]}
    ELSE {[elem |-> g, cont |-> k, crash |-> FALSE] :
             g \in Values \cup {Garbage}, k \in {<<>>, <<Garbage>>}}
         \cup {[elem |-> Garbage, cont |-> <<>>, crash |-> TRUE]}

(* ----------------------------------------------------------------- calls *)
(* The arguments and locals of a call die with its stack frame.            *)
EndCall(t) ==
  /\ block' = [block EXCEPT ![t] = FALSE]
  /\ timeout' = [timeout EXCEPT ![t] = 0]
  /\ arg' = [arg EXCEPT ![t] = Garbage]
  /\ remaining' = [remaining EXCEPT ![t] = 0]
  /\ waited' = [waited EXCEPT ![t] = 0]
  /\ snap' = [snap EXCEPT ![t] = <<>>]

StartCallUpTo(t, p, b, to, v, limit) ==
  /\ pc[t] = "idle"
  /\ ncalls < limit
  /\ ncalls' = ncalls + 1
  /\ pc' = [pc EXCEPT ![t] = p]
  /\ block' = [block EXCEPT ![t] = b]
  /\ timeout' = [timeout EXCEPT ![t] = to]
  /\ arg' = [arg EXCEPT ![t] = v]
  /\ result' = [result EXCEPT ![t] = [kind |-> NoResult, value |-> Garbage]]
  /\ UNCHANGED <<container, holders, remaining, waited, snap, seed, other, pushed,
                 popped>>

StartCall(t, p, b, to, v) == StartCallUpTo(t, p, b, to, v, MaxCalls)

CallPop(t) ==
  \E b \in BOOLEAN, to \in Timeouts : StartCall(t, "pop_lock", b, to, Garbage)
CallPush(t) ==
  \E v \in Values : StartCall(t, "push_lock", FALSE, 0, v)
CallEmpty(t) == StartCall(t, "empty_lock", FALSE, 0, Garbage)
CallSize(t) == StartCall(t, "size_lock", FALSE, 0, Garbage)

(* lock_guard / unique_lock constructors, lines 85, 94, 113, 143.          *)
Acquire(t, from, to) ==
  /\ pc[t] = from
  /\ CanLock(t)
  /\ holders' = holders \cup {t}
  /\ pc' = [pc EXCEPT ![t] = to]
  /\ snap' = [snap EXCEPT ![t] = container]
  /\ UNCHANGED <<container, block, timeout, arg, result, remaining, waited,
                 seed, other, pushed, popped, ncalls>>

EmptyLock(t) == Acquire(t, "empty_lock", "empty_read")
SizeLock(t) == Acquire(t, "size_lock", "size_read")
PushLock(t) == Acquire(t, "push_lock", "push_body")
PopLock(t) == Acquire(t, "pop_lock", "pop_check")

(* empty(), lines 84-87.                                                   *)
EmptyReadInverted(t) ==
  /\ pc[t] = "empty_read"
  /\ result' = [result EXCEPT ![t] = Bool(container # <<>>)]
  /\ holders' = holders \ {t}
  /\ pc' = [pc EXCEPT ![t] = "idle"]
  /\ EndCall(t)
  /\ UNCHANGED <<container, seed, other, pushed, popped, ncalls>>
EmptyRead(t) ==
  /\ pc[t] = "empty_read"
  /\ result' = [result EXCEPT ![t] = Bool(container = <<>>)]
  /\ holders' = holders \ {t}
  /\ pc' = [pc EXCEPT ![t] = "idle"]
  /\ EndCall(t)
  /\ UNCHANGED <<container, seed, other, pushed, popped, ncalls>>

(* size(), lines 93-96.                                                    *)
SizeRead(t) ==
  /\ pc[t] = "size_read"
  /\ result' = [result EXCEPT ![t] = [kind |-> "size", value |-> Len(container)]]
  /\ holders' = holders \ {t}
  /\ pc' = [pc EXCEPT ![t] = "idle"]
  /\ EndCall(t)
  /\ UNCHANGED <<container, seed, other, pushed, popped, ncalls>>

(* The threads suspended on non_empty_cond.                                *)
Waiters == {w \in Threads : pc[w] \in {"pop_wait", "pop_twait"}}

(* notify_one, line 145: wakes one suspended thread, if there is any.      *)
NotifyOne(p) ==
  IF Waiters = {}
    THEN {p}
    ELSE {[p EXCEPT ![w] = "pop_relock"] : w \in Waiters}

(* The process crashed: no thread runs any more.                           *)
Aborted == \A t \in Threads : pc[t] = "aborted"

(* push(), lines 142-146: append, notify_one, release.                     *)
PushBody(t) ==
  /\ pc[t] = "push_body"
  /\ container' = Append(container, arg[t])
  /\ pushed' = Append(pushed, arg[t])
  /\ \E p \in NotifyOne(pc) : pc' = [p EXCEPT ![t] = "idle"]
  /\ holders' = holders \ {t}
  /\ result' = [result EXCEPT ![t] = Void]
  /\ EndCall(t)
  /\ UNCHANGED <<seed, other, popped, ncalls>>

(* wait and timed_wait, lines 118 and 123, unlock the mutex of the calling *)
(* thread while it is suspended.                                           *)
HeldDuringWait(t) == holders
ReleasedByWait(t) == holders \ {t}

(* pop(), lines 115-130: the test that decides between waiting, throwing   *)
(* and removing the head. wait / timed_wait release the mutex atomically.  *)
PopCheck(t) ==
  /\ pc[t] = "pop_check"
  /\ IF TakesBlockingBranch(block[t], timeout[t])
       THEN IF WaitCond(container)
              THEN IF timeout[t] > 0
                     THEN /\ pc' = [pc EXCEPT ![t] = "pop_twait"]
                          /\ remaining' = [remaining EXCEPT ![t] = timeout[t]]
                          /\ holders' = ReleasedByWait(t)
                     ELSE /\ pc' = [pc EXCEPT ![t] = "pop_wait"]
                          /\ holders' = ReleasedByWait(t)
                          /\ UNCHANGED remaining
              ELSE /\ pc' = [pc EXCEPT ![t] = "pop_front"]
                   /\ UNCHANGED <<holders, remaining>>
       ELSE IF container = <<>>
              THEN /\ pc' = [pc EXCEPT ![t] = "pop_throw"]
                   /\ UNCHANGED <<holders, remaining>>
              ELSE /\ pc' = [pc EXCEPT ![t] = "pop_front"]
                   /\ UNCHANGED <<holders, remaining>>
  /\ UNCHANGED <<container, block, timeout, arg, result, waited, snap, seed, other,
                 pushed, popped, ncalls>>

(* A wait returns without a notification (spurious wake-up).               *)
SpuriousWake(t) ==
  /\ pc[t] \in {"pop_wait", "pop_twait"}
  /\ pc' = [pc EXCEPT ![t] = "pop_relock"]
  /\ UNCHANGED <<container, holders, block, timeout, arg, result, remaining,
                 waited, snap, seed, other, pushed, popped, ncalls>>

(* One unit of time passes for the threads in timed_wait. The time a call  *)
(* has waited is counted up to one more than the longest timeout.          *)
WaitedCap == MaxTimeout + 1

Tick ==
  /\ \E t \in Threads : pc[t] = "pop_twait" /\ remaining[t] > 0
  /\ remaining' = [t \in Threads |->
       IF pc[t] = "pop_twait" /\ remaining[t] > 0
         THEN remaining[t] - 1 ELSE remaining[t]]
  /\ waited' = [t \in Threads |->
       IF pc[t] = "pop_twait" /\ remaining[t] > 0 /\ waited[t] < WaitedCap
         THEN waited[t] + 1 ELSE waited[t]]
  /\ UNCHANGED <<container, holders, pc, block, timeout, arg, result, snap,
                 seed, other, pushed, popped, ncalls>>

(* timed_wait's time is up, lines 118-119: it will return false.           *)
TimedOut(t) ==
  /\ pc[t] = "pop_twait"
  /\ remaining[t] = 0
  /\ pc' = [pc EXCEPT ![t] = "pop_trelock"]
  /\ UNCHANGED <<container, holders, block, timeout, arg, result, remaining,
                 waited, snap, seed, other, pushed, popped, ncalls>>

(* wait / timed_wait re-acquire the mutex before they return.              *)
PopRelock(t) == Acquire(t, "pop_relock", "pop_check")
PopTimedRelock(t) == Acquire(t, "pop_trelock", "pop_throw")

(* throw queue_empty(), lines 120 and 128; unique_lock's destructor        *)
(* releases the mutex.                                                     *)
PopThrowDrop(t) ==
  /\ pc[t] = "pop_throw"
  /\ result' = [result EXCEPT ![t] = Thrown]
  /\ holders' = holders \ {t}
  /\ pc' = [pc EXCEPT ![t] = "idle"]
  /\ container' = IF container = <<>> THEN container ELSE Tail(container)
  /\ EndCall(t)
  /\ UNCHANGED <<seed, other, pushed, popped, ncalls>>
PopThrowHolding(t) ==
  /\ pc[t] = "pop_throw"
  /\ result' = [result EXCEPT ![t] = Thrown]
  /\ pc' = [pc EXCEPT ![t] = "idle"]
  /\ EndCall(t)
  /\ UNCHANGED <<container, holders, seed, other, pushed, popped, ncalls>>
PopThrow(t) ==
  /\ pc[t] = "pop_throw"
  /\ result' = [result EXCEPT ![t] = Thrown]
  /\ holders' = holders \ {t}
  /\ pc' = [pc EXCEPT ![t] = "idle"]
  /\ EndCall(t)
  /\ UNCHANGED <<container, seed, other, pushed, popped, ncalls>>

(* Lines 132-135: copy the front, remove it, release, return the copy. A   *)
(* crash ends the process, and with it every thread.                       *)
PopFront(t) ==
  /\ pc[t] = "pop_front"
  /\ \E o \in FrontPop(container) :
       /\ container' = o.cont
       /\ IF o.crash
            THEN /\ pc' = [u \in Threads |-> "aborted"]
                 /\ UNCHANGED <<holders, result, popped, block, timeout,
                                arg, remaining, waited, snap>>
            ELSE /\ pc' = [pc EXCEPT ![t] = "idle"]
                 /\ holders' = holders \ {t}
                 /\ result' = [result EXCEPT ![t] = Returned(o.elem)]
                 /\ popped' = Append(popped, o.elem)
                 /\ EndCall(t)
  /\ UNCHANGED <<seed, other, pushed, ncalls>>

ThreadStep(t) ==
  \/ CallPop(t)
  \/ CallPush(t)
  \/ CallEmpty(t)
  \/ CallSize(t)
  \/ EmptyLock(t)
  \/ EmptyRead(t)
  \/ SizeLock(t)
  \/ SizeRead(t)
  \/ PushLock(t)
  \/ PushBody(t)
  \/ PopLock(t)
  \/ PopCheck(t)
  \/ SpuriousWake(t)
  \/ TimedOut(t)
  \/ PopRelock(t)
  \/ PopTimedRelock(t)
  \/ PopThrow(t)
  \/ PopFront(t)

Next ==
  \/ \E t \in Threads : ThreadStep(t)
  \/ Tick

Spec == Init /\ [][Next]_vars

(* ------------------------------------------------- producers / consumer *)
(* One consumer that keeps calling pop(block = true) without a timeout and *)
(* producers that each push one value of their own, on a queue that was    *)
(* constructed empty.                                                      *)
Consumer == 1
Producers == Threads \ {Consumer}
ProducerValue(t) == t - 1

ProdConsInit == Init /\ seed = <<>>

ConsumerCall ==
  \E to \in {x \in Timeouts : x <= 0} :
     StartCall(Consumer, "pop_lock", TRUE, to, Garbage)

ProducerCall(t) ==
  /\ result[t].kind = NoResult
  /\ StartCall(t, "push_lock", FALSE, 0, ProducerValue(t))

ProdConsNext ==
  \/ ConsumerCall
  \/ PopLock(Consumer)
  \/ PopCheck(Consumer)
  \/ SpuriousWake(Consumer)
  \/ PopRelock(Consumer)
  \/ PopFront(Consumer)
  \/ \E t \in Producers : ProducerCall(t)
  \/ \E t \in Producers : PushLock(t)
  \/ \E t \in Producers : PushBody(t)

ProdConsSpec == ProdConsInit /\ [][ProdConsNext]_vars

(* ------------------------------------------------------ sequential use *)
(* One thread that constructs the queue from a container and then calls    *)
(* its member functions one after the other, as the test cases do; the     *)
(* container the queue was constructed from is pushed to afterwards        *)
(* (test/tests.cpp, lines 28-34).                                          *)
Main == 1
SeqCalls == MaxCalls + 1

(* The member `container` is a container_type held by value (line 152),    *)
(* copy-constructed from `other` (line 78): it does not refer to `other`.  *)
ContainerRefersToOther == TRUE
ContainerSharesOther == FALSE

SourcePush ==
  /\ other = seed
  /\ \E v \in Values :
       /\ other' = Append(other, v)
       /\ container' = IF ContainerSharesOther
                         THEN Append(container, v) ELSE container
  /\ UNCHANGED <<holders, pc, block, timeout, arg, result, remaining, waited,
                 snap, seed, pushed, popped, ncalls>>

SeqCall ==
  \/ \E b \in BOOLEAN, to \in Timeouts :
        StartCallUpTo(Main, "pop_lock", b, to, Garbage, SeqCalls)
  \/ \E v \in Values : StartCallUpTo(Main, "push_lock", FALSE, 0, v, SeqCalls)
  \/ StartCallUpTo(Main, "empty_lock", FALSE, 0, Garbage, SeqCalls)
  \/ StartCallUpTo(Main, "size_lock", FALSE, 0, Garbage, SeqCalls)

SeqNext ==
  \/ SeqCall
  \/ SourcePush
  \/ EmptyLock(Main)
  \/ EmptyRead(Main)
  \/ SizeLock(Main)
  \/ SizeRead(Main)
  \/ PushLock(Main)
  \/ PushBody(Main)
  \/ PopLock(Main)
  \/ PopCheck(Main)
  \/ SpuriousWake(Main)
  \/ TimedOut(Main)
  \/ PopRelock(Main)
  \/ PopTimedRelock(Main)
  \/ PopThrow(Main)
  \/ PopFront(Main)
  \/ Tick

SeqSpec == Init /\ [][SeqNext]_vars

(* -------------------------------------------- pushes past blocked pops *)
(* One thread that calls push and the other threads calling                *)
(* pop(block = true) without a timeout, on a queue constructed with        *)
(* elements in it: this is where line 116 makes a blocking pop wait. The   *)
(* scheduler is fair to a thread that owns the mutex (it runs on to its    *)
(* release) and strongly fair to a thread that is trying to lock it.       *)
Pusher == 1
Blocked == Threads \ {Pusher}

BlockedInit == Init /\ seed # <<>>

BlockedCalls == MaxCalls + 1

BlockingPopCall(t) ==
  \E to \in {x \in Timeouts : x <= 0} :
     StartCallUpTo(t, "pop_lock", TRUE, to, Garbage, BlockedCalls)

PusherCall ==
  \E v \in Values :
     StartCallUpTo(Pusher, "push_lock", FALSE, 0, v, BlockedCalls)

BlockedNext ==
  \/ \E t \in Blocked : BlockingPopCall(t)
  \/ \E t \in Blocked : PopLock(t)
  \/ \E t \in Blocked : PopCheck(t)
  \/ \E t \in Blocked : SpuriousWake(t)
  \/ \E t \in Blocked : PopRelock(t)
  \/ PusherCall
  \/ PushLock(Pusher)
  \/ PushBody(Pusher)

BlockedFairness ==
  /\ \A t \in Blocked : WF_vars(PopCheck(t))
  /\ WF_vars(PushBody(Pusher))
  /\ SF_vars(PushLock(Pusher))

BlockedSpec == BlockedInit /\ [][BlockedNext]_vars /\ BlockedFairness

(* ---------------------------------------------------------------- claims *)
IsPrefix(s, r) == Len(s) <= Len(r) /\ \A i \in 1..Len(s) : s[i] = r[i]
Range(s) == {s[i] : i \in 1..Len(s)}
InPop(t) ==
  pc[t] \in {"pop_lock", "pop_check", "pop_wait", "pop_twait", "pop_relock",
             "pop_trelock", "pop_throw", "pop_front"}

(* C1: a pop(block = true, timeout <= 0) that finds the queue empty        *)
(* suspends: from its emptiness test it goes to wait on the condition      *)
(* variable, it neither returns nor throws.                                *)
C1_BlockingPopSuspendsOnEmpty ==
  [][\A t \in Threads :
       (pc[t] = "pop_check" /\ block[t] /\ timeout[t] <= 0 /\ container = <<>>)
         => pc'[t] \in {"pop_check", "pop_wait"}]_vars

(* C2: a pop(block = true, timeout <= 0) that finds an element in the      *)
(* queue does not wait for a push: from its emptiness test it goes on to   *)
(* remove and return the head.                                             *)
C2_BlockingPopTakesHeadWhenNonEmpty ==
  [][\A t \in Threads :
       (pc[t] = "pop_check" /\ block[t] /\ timeout[t] <= 0 /\ container # <<>>)
         => pc'[t] \in {"pop_check", "pop_front"}]_vars

(* C3: whenever a pop call is about to throw queue_empty the queue is      *)
(* empty: a pop on a queue that holds an element never fails.              *)
C3_ThrowOnlyWhenEmpty ==
  \A t \in Threads : pc[t] = "pop_throw" => container = <<>>

(* C4: a pop(block = true, timeout > 0) that finds the queue empty and has *)
(* not yet waited for its whole timeout goes (back) to the timed wait: it  *)
(* does not complete before the timeout has elapsed and never returns an   *)
(* element.                                                                *)
C4_TimedPopWaitsOnEmpty ==
  [][\A t \in Threads :
       (pc[t] = "pop_check" /\ block[t] /\ timeout[t] > 0 /\ container = <<>>
          /\ waited[t] < timeout[t])
         => pc'[t] \in {"pop_check", "pop_twait"}]_vars

(* C5: pop(block = false, timeout = t) on an empty queue throws            *)
(* queue_empty straight after its emptiness test, for every t: it never    *)
(* waits on the condition variable and never reaches the head removal.     *)
C5_NonBlockingPopFailsImmediately ==
  [][\A t \in Threads :
       /\ (InPop(t) /\ ~block[t]) =>
             /\ pc[t] \notin {"pop_wait", "pop_twait", "pop_relock", "pop_trelock"}
             /\ waited[t] = 0
       /\ (pc[t] = "pop_check" /\ ~block[t] /\ container = <<>>)
             => pc'[t] \in {"pop_check", "pop_throw"}
       /\ (pc[t] = "pop_throw" /\ ~block[t])
             => \/ pc'[t] = "pop_throw"
                \/ pc'[t] = "idle" /\ result'[t] = Thrown]_vars

C5_Witness ==
  \E t \in Threads :
     /\ pc[t] = "pop_throw" /\ ~block[t] /\ timeout[t] > 0
     /\ container = <<>> /\ waited[t] = 0

(* C6: the values returned by pop, in the order the pops ran, are a prefix *)
(* of the seed contents followed by the pushed values in the order the     *)
(* pushes ran.                                                             *)
C6_StrictFifo == IsPrefix(popped, seed \o pushed)

(* C7: whenever the mutex is free, the length of the container is the      *)
(* number of seeded elements plus the number of completed pushes minus the *)
(* number of pops that returned an element, and that number is not         *)
(* negative.                                                               *)
C7_SizeAccounting ==
  holders = {} =>
     /\ Len(seed) + Len(pushed) - Len(popped) >= 0
     /\ Len(container) = Len(seed) + Len(pushed) - Len(popped)

(* C8: at most one thread owns the mutex, and a thread that is at a read   *)
(* or write of the container (the emptiness test of empty and pop, size,   *)
(* the append of push, front() and the removal of pop, also after a        *)
(* wake-up) owns it.                                                       *)
AccessPoints ==
  {"empty_read", "size_read", "push_body", "pop_check", "pop_throw", "pop_front"}
C8_MutualExclusion ==
  /\ Cardinality(holders) <= 1
  /\ \A t \in Threads : pc[t] \in AccessPoints => t \in holders

C8_Witness ==
  \E t, u \in Threads :
     /\ pc[t] = "pop_check" /\ waited[t] > 0 /\ t \in holders
     /\ pc[u] = "push_lock"

(* C9: with one consumer calling pop(block = true) on a queue constructed  *)
(* empty and producers each pushing one distinct value, every value a pop  *)
(* returns is a pushed value, none is returned twice, and the consumer is  *)
(* never suspended while the queue is non-empty.                           *)
C9_NoLossNoDuplication ==
  /\ Range(popped) \subseteq Range(pushed)
  /\ \A i, j \in 1..Len(popped) : popped[i] = popped[j] => i = j
  /\ pc[Consumer] = "pop_wait" => container = <<>>

(* C10: a pop that throws queue_empty leaves the container as it was when  *)
(* the call last took the mutex.                                           *)
C10_FailedPopLeavesContainer ==
  [][\A t \in Threads :
       pc[t] = "pop_throw" =>
          /\ container = snap[t]
          /\ pc'[t] = "idle" => (container' = snap[t] /\ result'[t] = Thrown)]_vars

C10_Witness ==
  \E t \in Threads :
     /\ pc[t] = "idle" /\ result[t] = Thrown
     /\ container # <<>> /\ container = seed

(* C11: on a queue constructed empty, with no other call in progress,      *)
(* empty() returns true exactly when as many pops have returned an element *)
(* as pushes have completed, and size() returns the number of completed    *)
(* pushes not matched by such a pop.                                       *)
C11_EmptyAfterDrain ==
  [][(seed = <<>> /\ Len(popped) <= Len(pushed)) =>
       /\ (pc[Main] = "empty_read" /\ pc'[Main] = "idle")
             => result'[Main] = Bool(Len(pushed) = Len(popped))
       /\ (pc[Main] = "size_read" /\ pc'[Main] = "idle")
             => result'[Main].value = Len(pushed) - Len(popped)]_vars

(* C12: a queue constructed from a sequence s reports size() = Len(s) and  *)
(* empty() = (Len(s) = 0) before any push or pop, its first pops return    *)
(* the elements of s in order, and pushing to the sequence it was          *)
(* constructed from leaves the queue as it is.                             *)
C12_SeedFromContainer ==
  [][/\ \A i \in 1..Len(popped) : i <= Len(seed) => popped[i] = seed[i]
     /\ (pushed = <<>> /\ popped = <<>>) =>
           /\ (pc[Main] = "size_read" /\ pc'[Main] = "idle")
                 => result'[Main] = [kind |-> "size", value |-> Len(seed)]
           /\ (pc[Main] = "empty_read" /\ pc'[Main] = "idle")
                 => result'[Main] = Bool(Len(seed) = 0)
     /\ other' # other => container' = container]_vars

C12_Witness ==
  /\ Len(seed) = 2 /\ popped = seed /\ pushed = <<>>
  /\ other # seed /\ container = <<>>
  /\ pc[Main] = "idle" /\ result[Main] = Returned(seed[2])

(* C13: every push call that has started eventually returns, whatever the  *)
(* number of threads suspended in a blocking pop, and when it returns its  *)
(* value has been appended at the tail of the container.                   *)
C13_PushTerminates ==
  /\ \A t \in Threads :
        (pc[t] = "push_lock") ~> (pc[t] = "idle" /\ result[t] = Void)
  /\ [][\A t \in Threads :
          (pc[t] \in {"push_lock", "push_body"} /\ pc'[t] # pc[t]) =>
             \/ pc[t] = "push_lock" /\ pc'[t] = "push_body"
             \/ /\ pc[t] = "push_body" /\ pc'[t] = "idle"
                /\ container' = Append(container, arg[t])]_vars

C13_Witness ==
  \E t, u \in Threads :
     /\ pc[t] = "idle" /\ result[t] = Void
     /\ pc[u] = "pop_wait"
     /\ Len(container) = Len(seed) + 1
     /\ container[Len(container)] = pushed[1]

(* C14: the timeout of pop(block = true, timeout > 0) is one budget for    *)
(* the whole call: a call that finds the queue empty before its timeout    *)
(* has elapsed goes (back) to the timed wait for the time that remains,    *)
(* and a call suspended on an empty queue has never been suspended for     *)
(* longer than its timeout.                                                *)
C14_TimeoutIsOneBudget ==
  [][\A t \in Threads :
       /\ (pc[t] = "pop_check" /\ block[t] /\ timeout[t] > 0
             /\ container = <<>> /\ waited[t] < timeout[t])
            => /\ pc'[t] \in {"pop_check", "pop_twait"}
               /\ pc'[t] = "pop_twait"
                    => remaining'[t] = timeout[t] - waited[t]
       /\ (pc[t] = "pop_twait" /\ container = <<>>)
            => waited[t] <= timeout[t]]_vars

(* C15: no thread is suspended on the condition variable while the queue   *)
(* is non-empty (a notified thread has left the wait; a suspended one has  *)
(* no notification pending).                                               *)
C15_NoWaiterOnNonEmptyQueue ==
  \A t \in Threads : pc[t] \in {"pop_wait", "pop_twait"} => container = <<>>

(* C16: the emptiness test of a blocking pop, made with the mutex held     *)
(* after the lock and after every wake-up, leads to the head removal only  *)
(* if the queue is non-empty and back to waiting if it is empty.           *)
C16_RetestAfterWakeup ==
  [][\A t \in Threads :
       (pc[t] = "pop_check" /\ block[t] /\ pc'[t] # pc[t]) =>
          /\ t \in holders
          /\ container # <<>> => pc'[t] = "pop_front"
          /\ container = <<>> => pc'[t] \in {"pop_wait", "pop_twait"}]_vars

(* C17: each step of empty() and size() (lock the mutex; read, unlock and  *)
(* return) changes neither the container nor any other thread (suspended,  *)
(* notified or running); empty() returns whether the length is 0 and       *)
(* size() returns the length.                                              *)
QueryStep(t) == pc'[t] \notin {pc[t], "aborted"}
C17_QueriesArePure ==
  [][\A t \in Threads :
       /\ (pc[t] \in {"empty_lock", "size_lock"} /\ QueryStep(t)) =>
             /\ holders = {} /\ holders' = {t}
             /\ pc'[t] = (IF pc[t] = "empty_lock"
                            THEN "empty_read" ELSE "size_read")
             /\ container' = container
             /\ Waiters' = Waiters
             /\ \A u \in Threads \ {t} : pc'[u] = pc[u]
       /\ (pc[t] \in {"empty_read", "size_read"} /\ QueryStep(t)) =>
             /\ t \in holders /\ holders' = {}
             /\ pc'[t] = "idle"
             /\ container' = container
             /\ Waiters' = Waiters
             /\ \A u \in Threads \ {t} : pc'[u] = pc[u]
             /\ result'[t] = (IF pc[t] = "empty_read"
                                THEN Bool(Len(container) = 0)
                                ELSE [kind |-> "size", value |-> Len(container)])]_vars

C17_Witness ==
  \E t, u \in Threads :
     /\ pc[t] = "idle" /\ result[t] = Bool(FALSE)
     /\ pc[u] = "pop_wait" /\ container = seed

(* C18: front() and pop() of the container are reached only when the       *)
(* container holds at least one element.                                   *)
C18_HeadRemovalOnNonEmpty ==
  \A t \in Threads : pc[t] = "pop_front" => container # <<>>

(* C19: on a queue constructed empty every pop returns a pushed element    *)
(* and every pushed element is returned by at most one pop.                *)
Count(s, v) == Cardinality({i \in 1..Len(s) : s[i] = v})
C19_EachPopADifferentPush ==
  seed = <<>> =>
     \A v \in Range(popped) : Count(popped, v) <= Count(pushed, v)

(* C20: a thread that is not inside a locked section (no call in progress, *)
(* waiting for the mutex, or suspended on the condition variable) does not *)
(* own the mutex; with no call in progress the mutex is free.              *)
OutsideLock ==
  {"idle", "empty_lock", "size_lock", "push_lock", "pop_lock", "pop_wait",
   "pop_twait", "pop_relock", "pop_trelock"}
C20_MutexReleasedOnExit ==
  /\ \A t \in Threads : pc[t] \in OutsideLock => t \notin holders
  /\ (\A t \in Threads : pc[t] = "idle") => holders = {}

C20_Witness ==
  \E t, u \in Threads :
     /\ pc[t] = "idle" /\ result[t] = Thrown
     /\ pc[u] \in AccessPoints /\ holders = {u}

====
